---- MODULE Spec2Model ----
(***************************************************************************)
(* Client-side real-time message synchronisation of the private chat       *)
(* client: the App component (src/src/App.tsx), the ChatArea thread        *)
(* (src/src/components/ChatArea.tsx) and the STOMP transport session       *)
(* (class WebSocketService, src/src/services/authService.ts:89-249).       *)
(*                                                                         *)
(* Every handler of the program is one action.  Time is discrete, in       *)
(* seconds: Tick(d) lets d seconds pass, and a timer that is due fires     *)
(* before the next Tick.                                                   *)
(***************************************************************************)
EXTENDS Integers, Sequences, FiniteSets, TLC

(***************************************************************************)
(* Values                                                                  *)
(***************************************************************************)
NULL == "null"                 \* JavaScript null
UNDEFINED == "undefined"       \* an absent optional field; what `${x}` prints for it

Me == "A"                      \* the logged-in user
Conversations == {"c1", "c2"}  \* conversation ids the sidebar offers
ParticipantOf(c) == IF c = "c1" THEN "B" ELSE "C"
Timestamps == {"t1", "t2"}      \* timestamps of inbound messages
Now == "now"                   \* new Date().toISOString()

\* ---- bounds of the model
MaxThread == 2                 \* appends stop at this thread length
MaxTypingTimers == 3           \* typing timeouts pending at once
MaxSessions == 2               \* sessions holding a client that the model follows
MaxShown == 3                  \* thread length up to which the parent calls addMessage directly

\* ---- program constants, in seconds
DEDUP_SECONDS == 10            \* setTimeout(..., 10000) in remember
TYPING_SECONDS == 3            \* setTimeout(..., 3000) in the typing handler
TYPING_IDLE_SECONDS == 1       \* setTimeout(..., 1000) in handleInputChange

\* ---- wire destinations
QueueMessages == "/user/queue/messages"
TopicMessages(username) == "/topic/user/" \o username \o "/queue/messages"
QueueTyping == "/user/queue/typing"
QueueStatus == "/user/queue/status"
AppSendPrivate == "/app/chat.sendPrivateMessage"
AppTyping == "/app/chat.typing"
AppMarkAsRead == "/app/chat.markAsRead"
AppAddUser == "/app/chat.addUser"

Subscriptions(username) ==
  {QueueMessages, TopicMessages(username), QueueTyping, QueueStatus}

\* ---- ChatMessage (the JSON body of a frame)
ChatMessage(type, sender, recipient, conversationId, timestamp, content, status) ==
  [type |-> type, sender |-> sender, recipient |-> recipient,
   conversationId |-> conversationId, timestamp |-> timestamp,
   content |-> content, status |-> status]

NoFrame == ChatMessage("none", "", "", "", "", "", "")

\* CHAT frames the broker may deliver: own echoes and peer messages, for either
\* conversation or without a conversationId.
InboundChat ==
  { ChatMessage("CHAT", "B", Me, "c1", t, "hi", "SENT") : t \in Timestamps }
  \cup { ChatMessage("CHAT", "C", Me, "c2", "t1", "hi", "SENT"),
         ChatMessage("CHAT", "B", Me, UNDEFINED, "t1", "hi", "SENT") }
  \cup { ChatMessage("CHAT", Me, ParticipantOf(c), c, "t1", "hi", "SENT") : c \in Conversations }

\* Read receipts the broker may deliver.
InboundRead ==
  { ChatMessage("READ", "B", Me, c, "t1", "", "READ") : c \in Conversations }

\* Typing indicators the broker may deliver.
InboundTyping ==
  { ChatMessage("TYPING", s, Me, UNDEFINED, "t1", "", UNDEFINED) : s \in {"B", "C"} }

InboundJoin == { ChatMessage("JOIN", "B", UNDEFINED, UNDEFINED, "t1", "", UNDEFINED) }

\* ---- Message (an element of the ChatArea thread)
Message(content, sender, recipient, createdAt, status) ==
  [content |-> content, senderUsername |-> sender, recipientUsername |-> recipient,
   createdAt |-> createdAt, status |-> status]

\* ---- Conversation (a preview in the sidebar)
Conversation(id, unreadCount) ==
  [id |-> id, otherParticipant |-> ParticipantOf(id), unreadCount |-> unreadCount]

\* What getUserConversations may answer.
ConversationLists ==
  { << >>, << Conversation("c1", 1) >>, << Conversation("c2", 0) >>,
    << Conversation("c1", 0), Conversation("c2", 1) >> }

\* What getConversationMessages may answer for a conversation.
Histories(c) ==
  { <<>>, << Message("old", Me, ParticipantOf(c), "t0", "SENT") >> }

\* ---- texts the user may type, as character sequences
Texts == { <<>>, <<" ">>, <<" ", "y">> }

IsSpace(ch) == ch \in {" ", "\t", "\n"}

RECURSIVE TrimStart(_)
TrimStart(s) ==
  IF s = <<>> THEN <<>>
  ELSE IF IsSpace(Head(s)) THEN TrimStart(Tail(s)) ELSE s

RECURSIVE TrimEnd(_)
TrimEnd(s) ==
  IF s = <<>> THEN <<>>
  ELSE IF IsSpace(s[Len(s)]) THEN TrimEnd(SubSeq(s, 1, Len(s) - 1)) ELSE s

\* String.prototype.trim
Trim(s) == TrimEnd(TrimStart(s))

\* the string a character sequence spells
RECURSIVE Str(_)
Str(s) == IF s = <<>> THEN "" ELSE Head(s) \o Str(Tail(s))

VARIABLES
  currentUser,               \* App state currentUser (Me once logged in)
  selectedConversation,      \* App state, as last set
  otherParticipant,          \* App state, as last set
  renderedConversation,      \* the value of the last committed render (ChatArea prop, effect deps)
  renderedParticipant,
  selectedConversationRef,   \* selectedConversationRef.current
  otherParticipantRef,       \* otherParticipantRef.current
  connectionStatus,          \* App state connectionStatus
  stompClient,               \* WebSocketService.stompClient is not null
  connected,                 \* WebSocketService.connected
  connecting,                \* the session's connect attempt is under way: onConnect or an error may still come
  subscribed,                \* the destinations the session is subscribed to
  liveClients,               \* history: the number of sessions created so far that still hold a client
  abandonedConnect,          \* disconnect() was called on the current session while its connect()
                             \* promise was pending, and the promise is pending still
  recentKeys,                \* the Set recentKeys of the current connectToWebSocket call
  dedupTimers,               \* pending timeouts of remember: [key, left]
  messages,                  \* ChatArea state messages (the thread)
  pendingReads,              \* markMessagesAsRead calls in flight, each with its continuation
  pendingLoads,              \* conversations whose getConversationMessages call is in flight
  newMessage,                \* ChatArea state newMessage (the input field)
  typingTimeout,             \* seconds left of typingTimeoutRef's timeout, -1 when none is pending
  hasSession,                \* webSocketService.current is not null
  typingUsers,               \* App state typingUsers
  typingTimers,              \* pending timeouts of the typing handler: [user, left]
  conversations,             \* ChatSidebar state conversations (the cached previews)
  refreshing,                \* a getUserConversations call of the mounted sidebar is in flight
  newestRefresh,             \* the most recently issued of these calls: none, pending, shown (answered
                             \* and set as the list) or failed
  olderRefresh,              \* a call issued before the most recently issued one is in flight
  lastAppend,                \* history: seconds since a message identical to TrackedFrame was appended
  lastTyping,                \* history: seconds since the last TYPING event of a peer
  lastAdded,                 \* history: seconds since the TYPING event that last put a peer on the list
  step                       \* what the last step was and what it emitted

vars == << currentUser, selectedConversation, otherParticipant, renderedConversation,
           renderedParticipant, selectedConversationRef, otherParticipantRef,
           connectionStatus, stompClient, connected, connecting, subscribed, liveClients,
           abandonedConnect, recentKeys, dedupTimers, messages, pendingReads, pendingLoads,
           newMessage, typingTimeout, hasSession,
           typingUsers, typingTimers, conversations, refreshing, newestRefresh,
           olderRefresh, lastAppend, lastTyping, lastAdded, step >>

appVars == << currentUser, selectedConversation, otherParticipant, renderedConversation,
              renderedParticipant, selectedConversationRef, otherParticipantRef >>
sessionVars == << connectionStatus, hasSession, stompClient, connected, connecting, subscribed,
                  liveClients, abandonedConnect >>
inputVars == << newMessage, typingTimeout >>
dedupVars == << recentKeys, dedupTimers >>
typingVars == << typingUsers, typingTimers, lastTyping, lastAdded >>
sidebarVars == << conversations, refreshing, newestRefresh, olderRefresh >>

\* ---- the record of a step: the operation, its input, and what it emitted
\* pub: frames published, rest: REST calls issued, refresh: sidebar refreshes asked for
StepOf(op, frame, handler, pub, rest, refresh) ==
  [op |-> op, frame |-> frame, handler |-> handler,
   pub |-> pub, rest |-> rest, refresh |-> refresh]

Quiet(op) == StepOf(op, NoFrame, "none", <<>>, <<>>, 0)

Publish(destination, body) == [destination |-> destination, body |-> body]
RestCall(name, conversationId, username) ==
  [name |-> name, conversationId |-> conversationId, username |-> username]

(***************************************************************************)
(* WebSocketService (src/src/services/authService.ts:102-249)              *)
(***************************************************************************)
\* isConnected()
IsConnected == connected

\* The handler connect() gives the frames of a subscription.  connect takes
\* (username, onMessageReceived, onTyping?): a third handler passed by the
\* caller is not a parameter and is never called.
HandlerFor(dest, username) ==
  IF dest = QueueMessages THEN "onMessageReceived"
  ELSE IF dest = TopicMessages(username) THEN "onMessageReceived"
  ELSE IF dest = QueueTyping THEN "onTyping"
  ELSE "log"

\* a sendPrivateMessage that publishes nothing
SendPrivateMessage_Never(client, conn, content, sender, recipient, conversationId, now) == << >>

\* a sendPrivateMessage that publishes whatever the session's fields
SendPrivateMessage_Unguarded(client, conn, content, sender, recipient, conversationId, now) ==
  << Publish(AppSendPrivate,
             ChatMessage("CHAT", sender, recipient, conversationId, now, content, "SENT")) >>

\* sendPrivateMessage: the frames it publishes, given the session's fields
SendPrivateMessage(client, conn, content, sender, recipient, conversationId, now) ==
  IF client /\ conn
  THEN << Publish(AppSendPrivate,
                  ChatMessage("CHAT", sender, recipient, conversationId, now, content, "SENT")) >>
  ELSE << >>

\* sendTypingIndicator
SendTypingIndicator(client, conn, sender, recipient, now) ==
  IF client /\ conn
  THEN << Publish(AppTyping,
                  ChatMessage("TYPING", sender, recipient, UNDEFINED, now, "", UNDEFINED)) >>
  ELSE << >>

\* a markAsRead that publishes nothing
MarkAsRead_Never(client, conn, sender, conversationId, now) == << >>

\* markAsRead
MarkAsRead(client, conn, sender, conversationId, now) ==
  IF client /\ conn
  THEN << Publish(AppMarkAsRead,
                  ChatMessage("CHAT", sender, UNDEFINED, conversationId, now, "", UNDEFINED)) >>
  ELSE << >>

\* a sendJoinMessage that publishes nothing
SendJoinMessage_Never(client, conn, username, now) == << >>

\* sendJoinMessage
SendJoinMessage(client, conn, username, now) ==
  IF client /\ conn
  THEN << Publish(AppAddUser,
                  ChatMessage("JOIN", username, UNDEFINED, UNDEFINED, now, "", UNDEFINED)) >>
  ELSE << >>

\* a SUBSCRIBE frame sent to the broker
Subscribe(destination) == [subscribe |-> destination]

\* what onConnect sends, in order: the four subscriptions (stompClient?.subscribe)
\* and then the JOIN event
OnConnectFrames(client, username, now) ==
  (IF client
   THEN << Subscribe(QueueMessages), Subscribe(TopicMessages(username)),
           Subscribe(QueueTyping), Subscribe(QueueStatus) >>
   ELSE << >>)
  \o SendJoinMessage(client, TRUE, username, now)

\* the fields of the current session
Session ==
  [stompClient |-> stompClient, connected |-> connected, connecting |-> connecting,
   subscribed |-> subscribed]

\* the primed session fields are those of s
SetSession(s) ==
  /\ stompClient' = s.stompClient
  /\ connected' = s.connected
  /\ connecting' = s.connecting
  /\ subscribed' = s.subscribed

\* a disconnect() that deactivates whether or not there is a client
Deactivations_Always(s) == 1

\* the number of clients a disconnect() call on session s deactivates
Deactivations(s) == IF s.stompClient THEN 1 ELSE 0

\* disconnect(): deactivates and drops the client if there is one; a
\* deactivated client delivers no frame and calls no callback any more
Disconnect(s) ==
  IF s.stompClient
  THEN [stompClient |-> FALSE, connected |-> FALSE, connecting |-> FALSE, subscribed |-> {}]
  ELSE s

(***************************************************************************)
(* ChatArea (src/src/components/ChatArea.tsx)                              *)
(***************************************************************************)
\* an addMessage that puts the message before the last one
AddMessage_BeforeLast(prev, message) ==
  IF prev = << >> THEN << message >>
  ELSE SubSeq(prev, 1, Len(prev) - 1) \o << message, prev[Len(prev)] >>

\* an addMessage that puts the message first
AddMessage_Prepend(prev, message) == << message >> \o prev

\* addMessage: setMessages(prev => [...prev, message])
AddMessage(prev, message) == Append(prev, message)

\* a markAllSentAsRead that flips the status of the user's messages
MarkAllSentAsRead_Toggle(prev, user) ==
  [i \in 1..Len(prev) |->
     IF prev[i].senderUsername = user
     THEN [prev[i] EXCEPT !.status = IF prev[i].status = "READ" THEN "SENT" ELSE "READ"]
     ELSE prev[i]]

\* markAllSentAsRead: every message of the current user gets status READ
MarkAllSentAsRead(prev, user) ==
  [i \in 1..Len(prev) |->
     IF prev[i].senderUsername = user THEN [prev[i] EXCEPT !.status = "READ"] ELSE prev[i]]

\* new Date(ts), read with the local-time getters getFullYear, getMonth (from
\* 0) and getDate: the timestamps of the model and the local dates they denote
ParseDate(ts) ==
  IF ts = "t0" THEN [fullYear |-> 2024, month |-> 0, date |-> 11, hours |-> 9]
  ELSE IF ts = "t1" THEN [fullYear |-> 2024, month |-> 10, date |-> 1, hours |-> 9]
  ELSE IF ts = "t2" THEN [fullYear |-> 2024, month |-> 10, date |-> 1, hours |-> 23]
  ELSE [fullYear |-> 2024, month |-> 10, date |-> 2, hours |-> 0]

\* a getDateKey that leaves out the day of the month
GetDateKey_WithoutDate(ts) ==
  ToString(ParseDate(ts).fullYear) \o "-" \o ToString(ParseDate(ts).month + 1)

\* getDateKey: `${d.getFullYear()}-${d.getMonth()+1}-${d.getDate()}`
GetDateKey(ts) ==
  ToString(ParseDate(ts).fullYear) \o "-" \o ToString(ParseDate(ts).month + 1)
    \o "-" \o ToString(ParseDate(ts).date)

\* flush(dateKey): the buffer, if it holds a message, becomes the next group
Flush(groups, dateKey, buffer) ==
  IF Len(buffer) > 0
  THEN Append(groups, [key |-> dateKey \o "-" \o ToString(Len(groups)),
                       dateKey |-> dateKey, messages |-> buffer])
  ELSE groups

\* messages.forEach((m, idx) => ...) from index idx on, with the groups, the
\* current date key and the buffer as the iterations before left them
RECURSIVE GroupFrom(_, _, _, _, _)
GroupFrom(thread, idx, groups, currentDateKey, buffer) ==
  IF idx > Len(thread) THEN groups
  ELSE LET dk == GetDateKey(thread[idx].createdAt)
           startKey == IF currentDateKey = NULL THEN dk ELSE currentDateKey
           groupsNow == IF dk # startKey THEN Flush(groups, startKey, buffer) ELSE groups
           bufferNow == Append(IF dk # startKey THEN << >> ELSE buffer, thread[idx])
       IN IF idx = Len(thread)
          THEN Flush(groupsNow, dk, bufferNow)
          ELSE GroupFrom(thread, idx + 1, groupsNow, dk, bufferNow)

\* the date groups the chat area renders for a thread
DateGroups(thread) == GroupFrom(thread, 1, << >>, NULL, << >>)

(***************************************************************************)
(* App (src/src/App.tsx): the handlers installed by connectToWebSocket     *)
(***************************************************************************)
\* the de-dup key of an inbound message
DedupKey(m) ==
  m.sender \o "|" \o m.recipient \o "|" \o m.timestamp \o "|"
    \o m.conversationId \o "|" \o m.content

\* the conversation an inbound event is classified against
ActiveConversationId == selectedConversationRef

\* a handler that takes no message for an echo
IsSelfEcho_Never(m) == FALSE

\* the echo of a message this user sent
IsSelfEcho(m) == m.sender = currentUser

\* a handler that takes every message to be for the open conversation
IsForActiveConversation_Always(m) == TRUE

\* the inbound message belongs to the conversation that is open
IsForActiveConversation(m) == m.conversationId = ActiveConversationId

\* recentKeys.has(key)
IsDuplicate(keys, m) == DedupKey(m) \in keys

\* messageForChat
MessageForChat(m) ==
  Message(m.content, m.sender, IF m.recipient \in {UNDEFINED, ""} THEN "" ELSE m.recipient,
          m.timestamp, UNDEFINED)

\* a pending markMessagesAsRead call and the continuation waiting for it
PendingRead(origin, conversationId, username) ==
  [origin |-> origin, conversationId |-> conversationId, username |-> username]

\* the inbound message is appended by the handler in the current state
Accepts(m) ==
  /\ m.type = "CHAT"
  /\ ~IsSelfEcho(m)
  /\ IsForActiveConversation(m)
  /\ ~IsDuplicate(recentKeys, m)

\* the inbound message whose repeated delivery the history variable lastAppend times
TrackedFrame == ChatMessage("CHAT", "B", Me, "c1", "t1", "hi", "SENT")
TypingPeers == { m.sender : m \in InboundTyping }

Min(a, b) == IF a < b THEN a ELSE b

\* The sidebar after a step that is not the sidebar's own: every refresh the
\* step asked for (refreshConversations(), the refresh counter, the mount)
\* has called loadConversations of the mounted sidebar, which is now waiting
\* for its answer.
SidebarFollows ==
  /\ refreshing' = (currentUser' # NULL /\ (refreshing \/ step'.refresh > 0))
  /\ newestRefresh' = IF currentUser' # NULL /\ step'.refresh > 0
                      THEN "pending" ELSE newestRefresh
  /\ olderRefresh' = IF currentUser' # NULL /\ step'.refresh > 0
                     THEN olderRefresh \/ newestRefresh = "pending" ELSE olderRefresh
  /\ conversations' = conversations

(***************************************************************************)
(* Initial state: the App is mounted and nobody is logged in.              *)
(***************************************************************************)
Init ==
  /\ currentUser = NULL
  /\ selectedConversation = NULL
  /\ otherParticipant = NULL
  /\ renderedConversation = NULL
  /\ renderedParticipant = NULL
  /\ selectedConversationRef = NULL
  /\ otherParticipantRef = NULL
  /\ connectionStatus = "Disconnected"
  /\ hasSession = FALSE
  /\ stompClient = FALSE
  /\ connected = FALSE
  /\ connecting = FALSE
  /\ subscribed = {}
  /\ liveClients = 0
  /\ abandonedConnect = FALSE
  /\ recentKeys = {}
  /\ dedupTimers = {}
  /\ messages = << >>
  /\ pendingReads = {}
  /\ pendingLoads = {}
  /\ newMessage = << >>
  /\ typingTimeout = -1
  /\ typingUsers = << >>
  /\ typingTimers = << >>
  /\ conversations = << >>
  /\ refreshing = FALSE
  /\ newestRefresh = "none"
  /\ olderRefresh = FALSE
  /\ lastAppend = DEDUP_SECONDS
  /\ lastTyping = [u \in TypingPeers |-> TYPING_SECONDS + 1]
  /\ lastAdded = [u \in TypingPeers |-> TYPING_SECONDS + 1]
  /\ step = Quiet("init")

(***************************************************************************)
(* The connect effect of App (App.tsx:57-71) and connectToWebSocket        *)
(***************************************************************************)
\* an effect cleanup that leaves the session as it is
Cleanup_Skipped(s, has) == s

\* the cleanup of the connect effect, and the head of logout:
\* if (webSocketService.current) webSocketService.current.disconnect()
Cleanup(s, has) == IF has THEN Disconnect(s) ELSE s

\* the number of clients deactivated by a cleanup that took session s to session t
DeactivatedBy(s, t, has) == IF has /\ ~t.stompClient THEN Deactivations(s) ELSE 0

\* the number of clients still held once the cleanup has run on the current session
LiveAfterCleanup ==
  liveClients - DeactivatedBy(Session, Cleanup(Session, hasSession), hasSession)

\* the status connectToWebSocket sets when connect has settled
StatusAfterConnect_Stuck(ok) == "Connecting..."

StatusAfterConnect(ok) == IF ok THEN "Connected" ELSE "Connection Failed"

\* The connect effect re-runs: the cleanup of its last run, then
\* connectToWebSocket up to its await: a new WebSocketService with a new
\* recentKeys, status Connecting, connect() has created and activated the client.
ConnectToWebSocket ==
  /\ LiveAfterCleanup < MaxSessions
  /\ liveClients' = LiveAfterCleanup + 1
  /\ connectionStatus' = "Connecting..."
  /\ hasSession' = TRUE
  /\ stompClient' = TRUE
  /\ connected' = FALSE
  /\ connecting' = TRUE
  /\ subscribed' = {}
  /\ abandonedConnect' = FALSE
  /\ recentKeys' = {}
  /\ dedupTimers' = {}

\* handleAuth, login succeeded: setCurrentUser, the render that follows mounts the
\* sidebar (which loads the conversations) and the chat area, and the connect
\* effect runs.
Login ==
  /\ currentUser = NULL
  /\ currentUser' = Me
  /\ ConnectToWebSocket
  /\ messages' = << >>
  /\ newMessage' = << >>
  /\ step' = StepOf("login", NoFrame, "none", << >>,
                    << RestCall("getUserConversations", UNDEFINED, Me) >>, 1)
  /\ UNCHANGED << selectedConversation, otherParticipant, renderedConversation,
                  renderedParticipant, selectedConversationRef, otherParticipantRef,
                  pendingReads, pendingLoads, typingTimeout, typingVars, lastAppend >>
  /\ SidebarFollows

\* logout, and the render that follows: logout disconnects, the chat area and
\* the sidebar unmount, the effect's cleanup disconnects once more, the refs are
\* synced.
Logout ==
  /\ currentUser # NULL
  /\ LET once == Cleanup(Session, hasSession)
          twice == Cleanup(once, hasSession)
     IN /\ SetSession(twice)
        /\ liveClients' = LiveAfterCleanup - DeactivatedBy(once, twice, hasSession)
  /\ hasSession' = hasSession
  /\ abandonedConnect' = (hasSession /\ stompClient /\ connecting)
  /\ currentUser' = NULL
  /\ selectedConversation' = NULL
  /\ otherParticipant' = NULL
  /\ renderedConversation' = NULL
  /\ renderedParticipant' = NULL
  /\ selectedConversationRef' = NULL
  /\ otherParticipantRef' = NULL
  /\ typingUsers' = << >>
  /\ connectionStatus' = "Disconnected"
  /\ recentKeys' = {}
  /\ dedupTimers' = {}
  /\ messages' = << >>
  /\ pendingLoads' = {}
  /\ newMessage' = << >>
  /\ typingTimeout' = -1
  /\ step' = Quiet("logout")
  /\ UNCHANGED << pendingReads, typingTimers, lastTyping, lastAdded, lastAppend >>
  /\ conversations' = << >>
  /\ refreshing' = FALSE
  /\ newestRefresh' = "none"
  /\ olderRefresh' = FALSE

\* handleConversationSelect up to its await: state and refs are set, the
\* mark-as-read call is issued.
HandleConversationSelect(conversationId, participant) ==
  /\ currentUser # NULL
  /\ \A r \in pendingReads : r.origin # "select"      \* one such call in flight at once
  /\ selectedConversation' = conversationId
  /\ otherParticipant' = participant
  /\ selectedConversationRef' = conversationId
  /\ otherParticipantRef' = participant
  /\ pendingReads' = pendingReads \cup {PendingRead("select", conversationId, currentUser)}
  /\ step' = StepOf("select", NoFrame, "none", << >>,
                    << RestCall("markMessagesAsRead", conversationId, currentUser) >>, 0)
  /\ UNCHANGED << currentUser, renderedConversation, renderedParticipant, sessionVars,
                  dedupVars, messages, pendingLoads, inputVars, typingVars, lastAppend >>
  /\ SidebarFollows

\* The render after a selection changed the state: ChatArea's effect on
\* conversationId starts loadMessages, App's effect (deps currentUser,
\* selectedConversation, otherParticipant) disconnects the session, connects a
\* new one and syncs the refs.
Render ==
  /\ currentUser # NULL
  /\ << selectedConversation, otherParticipant >> # << renderedConversation, renderedParticipant >>
  /\ selectedConversation \notin pendingLoads
  /\ renderedConversation' = selectedConversation
  /\ renderedParticipant' = otherParticipant
  /\ selectedConversationRef' = selectedConversation
  /\ otherParticipantRef' = otherParticipant
  /\ pendingLoads' = IF selectedConversation # renderedConversation /\ selectedConversation # NULL
                     THEN pendingLoads \cup {selectedConversation}
                     ELSE pendingLoads
  /\ messages' = IF selectedConversation # renderedConversation /\ selectedConversation = NULL
                 THEN << >> ELSE messages
  /\ ConnectToWebSocket
  /\ step' = StepOf("render", NoFrame, "none", << >>,
                    IF selectedConversation # renderedConversation /\ selectedConversation # NULL
                    THEN << RestCall("getConversationMessages", selectedConversation, UNDEFINED) >>
                    ELSE << >>, 0)
  /\ UNCHANGED << currentUser, selectedConversation, otherParticipant, pendingReads,
                  inputVars, typingVars, lastAppend >>
  /\ SidebarFollows

\* onConnect: the session is connected and subscribed, JOIN is published, the
\* promise resolves and connectToWebSocket sets the status.
ConnectSuccess ==
  /\ connecting
  /\ connected' = TRUE
  /\ connecting' = FALSE
  /\ subscribed' = IF stompClient THEN Subscriptions(currentUser) ELSE subscribed
  /\ connectionStatus' = StatusAfterConnect(TRUE)
  /\ step' = StepOf("onConnect", NoFrame, "none",
                    OnConnectFrames(stompClient, currentUser, Now), << >>, 0)
  /\ UNCHANGED << appVars, hasSession, stompClient, liveClients, abandonedConnect, dedupVars,
                  messages, pendingReads, pendingLoads, inputVars, typingVars, lastAppend >>
  /\ SidebarFollows

\* onStompError while connecting: the promise rejects and connectToWebSocket
\* sets the status.
ConnectError ==
  /\ connecting
  /\ connected' = FALSE
  /\ connecting' = FALSE
  /\ connectionStatus' = StatusAfterConnect(FALSE)
  /\ step' = Quiet("onStompError")
  /\ UNCHANGED << appVars, hasSession, stompClient, subscribed, liveClients, abandonedConnect,
                  dedupVars, messages, pendingReads, pendingLoads, inputVars, typingVars,
                  lastAppend >>
  /\ SidebarFollows

\* The transport handshake fails (the socket errors or closes before the
\* broker answers): connect() sets neither onWebSocketError nor
\* onWebSocketClose, so its promise is neither resolved nor rejected; no
\* callback of this session comes any more.
WebSocketError ==
  /\ connecting
  /\ connecting' = FALSE
  /\ step' = Quiet("onWebSocketError")
  /\ UNCHANGED << appVars, connectionStatus, hasSession, stompClient, connected, subscribed,
                  liveClients, abandonedConnect, dedupVars, messages, pendingReads, pendingLoads,
                  inputVars, typingVars, lastAppend >>
  /\ SidebarFollows

\* the status after an onStompError that comes once connect() has resolved:
\* reject() on the settled promise does nothing, connectToWebSocket has
\* returned, nothing sets the status
StatusAfterStompError(status) == status

\* onStompError after onConnect: the broker sends an ERROR frame to the
\* connected session.  connected becomes false; the client and its
\* subscriptions stay.
StompErrorAfterConnect ==
  /\ hasSession
  /\ stompClient
  /\ connected
  /\ connected' = FALSE
  /\ connectionStatus' = StatusAfterStompError(connectionStatus)
  /\ step' = Quiet("onStompErrorAfterConnect")
  /\ UNCHANGED << appVars, hasSession, stompClient, connecting, subscribed, liveClients,
                  abandonedConnect, dedupVars, messages, pendingReads, pendingLoads,
                  inputVars, typingVars, lastAppend >>
  /\ SidebarFollows

\* onConnect: this.connected = true, whether or not the session holds a client
ConnectedByCallback(client) == TRUE

\* onConnect of a session whose connect() was pending when disconnect() was
\* called on it (logout while connecting): connected is set, the subscribe
\* calls are skipped (stompClient?.) and sendJoinMessage sends nothing since
\* there is no client; the promise resolves and connectToWebSocket sets the
\* status.
LateConnect ==
  /\ abandonedConnect
  /\ abandonedConnect' = FALSE
  /\ connected' = ConnectedByCallback(stompClient)
  /\ subscribed' = IF stompClient THEN Subscriptions(Me) ELSE subscribed
  /\ connectionStatus' = StatusAfterConnect(TRUE)
  /\ step' = StepOf("lateOnConnect", NoFrame, "none",
                    OnConnectFrames(stompClient, Me, Now), << >>, 0)
  /\ UNCHANGED << appVars, hasSession, stompClient, connecting, liveClients, dedupVars,
                  messages, pendingReads, pendingLoads, inputVars, typingVars, lastAppend >>
  /\ SidebarFollows

(***************************************************************************)
(* Inbound frames                                                          *)
(***************************************************************************)
\* JavaScript truthiness of a string-or-null value
Truthy(v) == v \notin {NULL, UNDEFINED, ""}

\* the first handler given to connect (App.tsx:115-182)
OnMessageReceived(m) ==
  IF m.type = "CHAT" /\ ~IsSelfEcho(m) /\ ~IsForActiveConversation(m)
  THEN \* another conversation: refresh the sidebar only
       /\ step' = StepOf("frame", m, "onMessageReceived", << >>, << >>, 1)
       /\ UNCHANGED << dedupVars, messages, pendingReads, lastAppend >>
  ELSE IF Accepts(m)
  THEN /\ Len(messages) < MaxThread
       /\ \A r \in pendingReads : r.origin # "inbound"  \* one such call in flight at once
       /\ recentKeys' = recentKeys \cup {DedupKey(m)}
       /\ dedupTimers' = dedupTimers \cup {[key |-> DedupKey(m), left |-> DEDUP_SECONDS]}
       /\ messages' = AddMessage(messages, MessageForChat(m))
       /\ lastAppend' = IF m = TrackedFrame THEN 0 ELSE lastAppend
       /\ IF Truthy(ActiveConversationId) /\ Truthy(currentUser)
          THEN /\ pendingReads' = pendingReads
                                    \cup {PendingRead("inbound", ActiveConversationId, currentUser)}
               /\ step' = StepOf("frame", m, "onMessageReceived", << >>,
                                 << RestCall("markMessagesAsRead", ActiveConversationId, currentUser) >>, 0)
          ELSE /\ pendingReads' = pendingReads
               /\ step' = StepOf("frame", m, "onMessageReceived", << >>, << >>, 1)
  ELSE \* not CHAT, an own echo, or a duplicate: nothing
       /\ step' = StepOf("frame", m, "onMessageReceived", << >>, << >>, 0)
       /\ UNCHANGED << dedupVars, messages, pendingReads, lastAppend >>

\* prev.includes(sender)
Includes(prev, sender) == \E i \in 1..Len(prev) : prev[i] = sender

\* an updater that adds the sender whether or not the list has it
AddTypingUser_Always(prev, sender) == Append(prev, sender)

\* the updater of setTypingUsers in the typing handler: the sender is added
\* unless the list includes it
AddTypingUser(prev, sender) ==
  IF ~Includes(prev, sender) THEN Append(prev, sender) ELSE prev

\* the second handler given to connect (App.tsx:183-198)
OnTyping(m) ==
  IF m.type = "TYPING"
  THEN /\ Len(typingTimers) < MaxTypingTimers
       /\ typingUsers' = AddTypingUser(typingUsers, m.sender)
       /\ typingTimers' = Append(typingTimers, [user |-> m.sender, left |-> TYPING_SECONDS])
       /\ lastAdded' = IF m.sender \in TypingPeers /\ ~Includes(typingUsers, m.sender)
                       THEN [lastAdded EXCEPT ![m.sender] = 0] ELSE lastAdded
       /\ lastTyping' = IF m.sender \in TypingPeers
                        THEN [lastTyping EXCEPT ![m.sender] = 0] ELSE lastTyping
       /\ step' = StepOf("frame", m, "onTyping", << >>, << >>, 0)
  ELSE /\ step' = StepOf("frame", m, "onTyping", << >>, << >>, 0)
       /\ UNCHANGED typingVars

\* the third handler given to connect (App.tsx:200-218)
OnRead(m) ==
  IF m.conversationId = ActiveConversationId
  THEN /\ messages' = MarkAllSentAsRead(messages, currentUser)
       /\ step' = StepOf("frame", m, "onRead", << >>, << >>, 1)
  ELSE /\ messages' = messages
       /\ step' = StepOf("frame", m, "onRead", << >>, << >>, 0)

\* A frame arrives on one of the session's subscriptions (authService.ts:126-148).
DeliverFrame(dest, m) ==
  /\ dest \in subscribed
  /\ IF HandlerFor(dest, currentUser) = "onMessageReceived"
     THEN OnMessageReceived(m) /\ UNCHANGED typingVars
     ELSE IF HandlerFor(dest, currentUser) = "onTyping"
     THEN OnTyping(m) /\ UNCHANGED << dedupVars, messages, pendingReads, lastAppend >>
     ELSE IF HandlerFor(dest, currentUser) = "onRead"
     THEN OnRead(m) /\ UNCHANGED << dedupVars, pendingReads, lastAppend, typingVars >>
     ELSE \* the status queue: logged
          /\ step' = StepOf("frame", m, "log", << >>, << >>, 0)
          /\ UNCHANGED << dedupVars, messages, pendingReads, lastAppend, typingVars >>
  /\ UNCHANGED << appVars, sessionVars, pendingLoads, inputVars >>
  /\ SidebarFollows

(***************************************************************************)
(* Timers                                                                  *)
(***************************************************************************)
\* a timeout of remember that leaves the key in the cache
DedupExpire_KeepsKey(t) ==
  /\ t \in dedupTimers
  /\ t.left = 0
  /\ recentKeys' = recentKeys
  /\ dedupTimers' = dedupTimers \ {t}
  /\ step' = Quiet("dedupExpire")
  /\ UNCHANGED << appVars, sessionVars, messages, pendingReads, pendingLoads, inputVars,
                  typingVars, lastAppend >>
  /\ SidebarFollows

\* the timeout of remember: recentKeys.delete(key)
DedupExpire(t) ==
  /\ t \in dedupTimers
  /\ t.left = 0
  /\ recentKeys' = recentKeys \ {t.key}
  /\ dedupTimers' = dedupTimers \ {t}
  /\ step' = Quiet("dedupExpire")
  /\ UNCHANGED << appVars, sessionVars, messages, pendingReads, pendingLoads, inputVars,
                  typingVars, lastAppend >>
  /\ SidebarFollows

\* a typing timeout that leaves the sender in the list
TypingExpire_KeepsUser ==
  /\ typingTimers # << >>
  /\ Head(typingTimers).left = 0
  /\ typingUsers' = typingUsers
  /\ typingTimers' = Tail(typingTimers)
  /\ step' = Quiet("typingExpire")
  /\ UNCHANGED << appVars, sessionVars, dedupVars, messages, pendingReads, pendingLoads,
                  inputVars, lastTyping, lastAdded, lastAppend >>
  /\ SidebarFollows

\* the timeout of the typing handler: the sender is filtered out
TypingExpire ==
  /\ typingTimers # << >>
  /\ Head(typingTimers).left = 0
  /\ typingUsers' = SelectSeq(typingUsers, LAMBDA u : u # Head(typingTimers).user)
  /\ typingTimers' = Tail(typingTimers)
  /\ step' = Quiet("typingExpire")
  /\ UNCHANGED << appVars, sessionVars, dedupVars, messages, pendingReads, pendingLoads,
                  inputVars, lastTyping, lastAdded, lastAppend >>
  /\ SidebarFollows

\* the timeout of handleInputChange: an empty callback
TypingIdleExpire ==
  /\ typingTimeout = 0
  /\ typingTimeout' = -1
  /\ step' = Quiet("typingIdleExpire")
  /\ UNCHANGED << appVars, sessionVars, dedupVars, messages, pendingReads, pendingLoads,
                  newMessage, typingVars, lastAppend >>
  /\ SidebarFollows

\* d seconds pass, and no pending timeout is overdue at the end of them
Tick(d) ==
  /\ d > 0
  /\ \A t \in dedupTimers : t.left >= d
  /\ \A i \in 1..Len(typingTimers) : typingTimers[i].left >= d
  /\ typingTimeout = -1 \/ typingTimeout >= d
  /\ dedupTimers' = { [t EXCEPT !.left = t.left - d] : t \in dedupTimers }
  /\ typingTimers' = [i \in 1..Len(typingTimers) |->
                        [typingTimers[i] EXCEPT !.left = typingTimers[i].left - d]]
  /\ typingTimeout' = IF typingTimeout > 0 THEN typingTimeout - d ELSE typingTimeout
  /\ lastAppend' = Min(lastAppend + d, DEDUP_SECONDS)
  /\ lastTyping' = [u \in TypingPeers |-> Min(lastTyping[u] + d, TYPING_SECONDS + 1)]
  /\ lastAdded' = [u \in TypingPeers |-> Min(lastAdded[u] + d, TYPING_SECONDS + 1)]
  /\ step' = Quiet("tick")
  /\ UNCHANGED << appVars, sessionVars, recentKeys, messages, pendingReads, pendingLoads,
                  newMessage, typingUsers >>
  /\ SidebarFollows

(***************************************************************************)
(* REST calls settling                                                     *)
(***************************************************************************)
\* a handleConversationSelect that refreshes the sidebar only when the call succeeded
RefreshAfterSelect_OnlyOnSuccess(ok) == IF ok THEN 1 ELSE 0

\* the refreshes handleConversationSelect asks for once its call has settled
RefreshAfterSelect(ok) == 1

\* a message handler that refreshes the sidebar whatever the outcome of its call
RefreshAfterInboundRead_Always(ok) == 1

\* the refreshes the message handler asks for once its mark-as-read call has
\* settled: one in .then, none in .catch
RefreshAfterInboundRead(ok) == IF ok THEN 1 ELSE 0

\* a continuation that reads the selection when the call settles
ReceiptConversation_Current(r) == selectedConversationRef

\* the conversation the continuation of the message handler's call names: the
\* constant activeConversationId of the handler's run, not the ref
ReceiptConversation(r) == r.conversationId

\* markMessagesAsRead settles.  Issued by the message handler: .then publishes
\* the read receipt if the current session is connected and refreshes the
\* sidebar, .catch logs.  Issued by handleConversationSelect: the refresh
\* follows the try/catch either way.
MarkReadSettle(r, ok) ==
  /\ r \in pendingReads
  /\ pendingReads' = pendingReads \ {r}
  /\ step' =
       IF r.origin = "inbound"
       THEN IF ok
            THEN StepOf("markReadSettled", NoFrame, "inbound-ok",
                        IF hasSession /\ IsConnected
                        THEN MarkAsRead(stompClient, connected, r.username, ReceiptConversation(r), Now)
                        ELSE << >>,
                        << >>, RefreshAfterInboundRead(TRUE))
            ELSE StepOf("markReadSettled", NoFrame, "inbound-failed", << >>, << >>,
                        RefreshAfterInboundRead(FALSE))
       ELSE StepOf("markReadSettled", NoFrame,
                   IF ok THEN "select-ok" ELSE "select-failed", << >>, << >>,
                   RefreshAfterSelect(ok))
  /\ UNCHANGED << appVars, sessionVars, dedupVars, messages, pendingLoads, inputVars,
                  typingVars, lastAppend >>
  /\ SidebarFollows

\* the awaited getConversationMessages call of loadMessages is answered:
\* setMessages(response), or the error is logged
LoadAnswered(c, ok, response) ==
  /\ c \in pendingLoads
  /\ pendingLoads' = pendingLoads \ {c}
  /\ messages' = IF ok THEN response ELSE messages
  /\ step' = Quiet(IF ok THEN "loadOk" ELSE "loadFailed")
  /\ UNCHANGED << appVars, sessionVars, dedupVars, pendingReads, inputVars, typingVars,
                  lastAppend >>
  /\ SidebarFollows

\* getConversationMessages settles (loadMessages) with a history of the
\* conversation from before the session's messages
LoadSettle(c, ok, response) ==
  /\ response \in Histories(c)
  /\ LoadAnswered(c, ok, response)

\* the history of a conversation once the server has stored the message of
\* frame m: the stored message has the frame's fields
HistoryWith(m) == << Message(m.content, m.sender, m.recipient, m.timestamp, m.status) >>

\* getConversationMessages succeeds with the history that holds the message of
\* frame m, which the server stores before it sends the frame
LoadSettleWith(m) == LoadAnswered(m.conversationId, TRUE, HistoryWith(m))

\* a loadConversations that merges the answer into the cached list
Refreshed_Merged(old, response) == old \o response

\* loadConversations on success: setConversations(response)
Refreshed(old, response) == response

\* getUserConversations settles (loadConversations): setConversations(response),
\* or the error is logged.  newest says whether the call that settles is the
\* one issued last or one issued before it; the older calls in flight are not
\* counted: more says whether any of them is left in flight.
RefreshSettle(ok, response, more, newest) ==
  /\ currentUser # NULL
  /\ refreshing
  /\ response \in ConversationLists
  /\ IF newest THEN newestRefresh = "pending" /\ more = olderRefresh
               ELSE olderRefresh
  /\ conversations' = IF ok THEN Refreshed(conversations, response) ELSE conversations
  /\ refreshing' = (more \/ (~newest /\ newestRefresh = "pending"))
  /\ olderRefresh' = more
  /\ newestRefresh' = IF newest THEN (IF ok THEN "shown" ELSE "failed") ELSE newestRefresh
  /\ step' = StepOf("refreshSettled", [answer |-> response],
                    IF ok THEN "refresh-ok" ELSE "refresh-failed", << >>, << >>, 0)
  /\ UNCHANGED << appVars, sessionVars, dedupVars, messages, pendingReads, pendingLoads,
                  inputVars, typingVars, lastAppend >>

(***************************************************************************)
(* The input field and the send button of ChatArea                         *)
(***************************************************************************)
\* the conversation view (input, send button) is rendered
ChatShown == currentUser # NULL /\ renderedConversation # NULL /\ renderedParticipant # NULL

\* a handleInputChange that notifies on every change
MayNotifyTyping_Always(text) == TRUE

\* the guard of the typing notification in ChatArea.handleInputChange
MayNotifyTyping(text) ==
  Truthy(renderedParticipant) /\ hasSession /\ IsConnected /\ Len(text) > 0

\* ChatArea.handleInputChange
HandleInputChange(text) ==
  /\ ChatShown
  /\ text # newMessage
  /\ newMessage' = text
  /\ IF MayNotifyTyping(text)
     THEN /\ typingTimeout' = TYPING_IDLE_SECONDS
          /\ step' = StepOf("input", NoFrame, "none",
                            SendTypingIndicator(stompClient, connected, currentUser,
                                                renderedParticipant, Now),
                            << >>, 0)
     ELSE /\ typingTimeout' = typingTimeout
          /\ step' = Quiet("input")
  /\ UNCHANGED << appVars, sessionVars, dedupVars, messages, pendingReads, pendingLoads,
                  typingVars, lastAppend >>
  /\ SidebarFollows

\* the optimistic message of App.handleSendMessage
OptimisticMessage(message, user, recipient, now) ==
  Message(message, user, recipient, now, "SENT")

\* a handleSendMessage that goes on whatever the session's state
MaySend_Always == TRUE

\* the guard of App.handleSendMessage: it goes on only when the session is connected
MaySend == hasSession /\ IsConnected

\* the guard of ChatArea.handleSendMessage
CanSubmit == Trim(newMessage) # << >> /\ Truthy(renderedParticipant) /\ Truthy(renderedConversation)

\* ChatArea.handleSendMessage, which calls App.handleSendMessage
HandleSendMessage ==
  /\ ChatShown
  /\ IF ~CanSubmit
     THEN /\ step' = Quiet("send")
          /\ UNCHANGED << messages, newMessage >>
     ELSE /\ newMessage' = << >>
          /\ IF ~MaySend
             THEN /\ step' = StepOf("send", NoFrame, "submitted", << >>, << >>, 0)
                  /\ messages' = messages
             ELSE /\ Len(messages) < MaxThread
                  /\ messages' = AddMessage(messages,
                                   OptimisticMessage(Str(newMessage), currentUser,
                                                     renderedParticipant, Now))
                  /\ step' = StepOf("send", NoFrame, "submitted",
                                    SendPrivateMessage(stompClient, connected, Str(newMessage),
                                                       currentUser, renderedParticipant,
                                                       renderedConversation, Now),
                                    << >>, 1)
  /\ UNCHANGED << appVars, sessionVars, dedupVars, pendingReads, pendingLoads,
                  typingTimeout, typingVars, lastAppend >>
  /\ SidebarFollows

(***************************************************************************)
(* The handle ChatArea exposes to its parent (ChatArea.tsx:149-165)        *)
(***************************************************************************)
\* the messages App's handlers pass to addMessage: the optimistic message of a
\* send, and messageForChat of a peer's CHAT frame
ParentMessages ==
  { OptimisticMessage("y", Me, ParticipantOf(c), Now) : c \in Conversations }
  \cup { MessageForChat(m) : m \in { f \in InboundChat : f.sender # Me } }

\* chatAreaRef.current.addMessage(message), while the chat area is mounted
CallAddMessage(message) ==
  /\ currentUser # NULL
  /\ Len(messages) < MaxShown
  /\ messages' = AddMessage(messages, message)
  /\ step' = Quiet("addMessage")
  /\ UNCHANGED << appVars, sessionVars, dedupVars, pendingReads, pendingLoads, inputVars,
                  typingVars, lastAppend >>
  /\ SidebarFollows

\* chatAreaRef.current.markAllSentAsRead(), while the chat area is mounted
CallMarkAllSentAsRead ==
  /\ currentUser # NULL
  /\ messages' = MarkAllSentAsRead(messages, currentUser)
  /\ step' = Quiet("markAllSentAsRead")
  /\ UNCHANGED << appVars, sessionVars, dedupVars, pendingReads, pendingLoads, inputVars,
                  typingVars, lastAppend >>
  /\ SidebarFollows

(***************************************************************************)
(* The send methods of WebSocketService, called on the session the App     *)
(* holds, whatever its state (authService.ts:169-236)                      *)
(***************************************************************************)
\* a send method was called on the session: nothing but what it published changes
CalledOnSession(method, published) ==
  /\ hasSession
  /\ step' = StepOf(method, NoFrame, "none", published, << >>, 0)
  /\ UNCHANGED << appVars, sessionVars, dedupVars, messages, pendingReads, pendingLoads,
                  inputVars, typingVars, lastAppend >>
  /\ SidebarFollows

CallSendPrivateMessage(c) ==
  CalledOnSession("sendPrivateMessage",
                  SendPrivateMessage(stompClient, connected, "y", Me, ParticipantOf(c), c, Now))

CallSendTypingIndicator(c) ==
  CalledOnSession("sendTypingIndicator",
                  SendTypingIndicator(stompClient, connected, Me, ParticipantOf(c), Now))

CallMarkAsRead(c) ==
  CalledOnSession("markAsRead", MarkAsRead(stompClient, connected, Me, c, Now))

CallSendJoinMessage ==
  CalledOnSession("sendJoinMessage", SendJoinMessage(stompClient, connected, Me, Now))

(***************************************************************************)
(* Specifications                                                          *)
(***************************************************************************)
Destinations == Subscriptions(Me)
AllHistories == UNION { Histories(c) : c \in Conversations }
AllPendingReads ==
  { PendingRead(o, c, Me) : o \in {"inbound", "select"}, c \in Conversations }

\* The message thread under inbound frames: login, selection, the session,
\* CHAT frames on the two message subscriptions, REST calls settling,
\* and the de-dup window running out (time moves in whole windows).
Next ==
  \/ Login
  \/ \E c \in Conversations : HandleConversationSelect(c, ParticipantOf(c))
  \/ Render
  \/ ConnectSuccess
  \/ \E dest \in {QueueMessages, TopicMessages(Me)}, m \in InboundChat : DeliverFrame(dest, m)
  \/ \E r \in AllPendingReads, ok \in BOOLEAN : MarkReadSettle(r, ok)
  \/ \E c \in Conversations, ok \in BOOLEAN, r \in AllHistories : LoadSettle(c, ok, r)
  \/ \E t \in dedupTimers : DedupExpire(t)
  \/ Tick(DEDUP_SECONDS)

Spec == Init /\ [][Next]_vars

\* The thread under local sends and read receipts: login, selection, the
\* session (connect may fail), the input field and the send button, READ
\* frames on every subscription, REST calls settling; time moves in seconds.
NextSend ==
  \/ Login
  \/ \E c \in Conversations : HandleConversationSelect(c, ParticipantOf(c))
  \/ Render
  \/ ConnectSuccess
  \/ ConnectError
  \/ \E text \in Texts : HandleInputChange(text)
  \/ HandleSendMessage
  \/ \E dest \in Destinations, m \in InboundRead : DeliverFrame(dest, m)
  \/ \E r \in AllPendingReads, ok \in BOOLEAN : MarkReadSettle(r, ok)
  \/ \E c \in Conversations, ok \in BOOLEAN, r \in AllHistories : LoadSettle(c, ok, r)
  \/ TypingIdleExpire
  \/ Tick(1)

SpecSend == Init /\ [][NextSend]_vars

\* The session and the sidebar: login, logout, selection, the connect effect,
\* the outcomes of a connect attempt, REST calls of the selection and of the
\* sidebar settling.
NextSession ==
  \/ Login
  \/ Logout
  \/ \E c \in Conversations : HandleConversationSelect(c, ParticipantOf(c))
  \/ Render
  \/ ConnectSuccess
  \/ ConnectError
  \/ WebSocketError
  \/ \E r \in AllPendingReads, ok \in BOOLEAN : MarkReadSettle(r, ok)
  \/ \E ok \in BOOLEAN, response \in ConversationLists, more \in BOOLEAN, newest \in BOOLEAN :
        RefreshSettle(ok, response, more, newest)

SpecSession == Init /\ [][NextSession]_vars

\* The session and the status with the callbacks that come late: an ERROR
\* frame of the broker after the connect succeeded, and the connect callback
\* of a session that was disconnected while it was connecting.
NextStatus ==
  \/ Login
  \/ Logout
  \/ \E c \in Conversations : HandleConversationSelect(c, ParticipantOf(c))
  \/ Render
  \/ ConnectSuccess
  \/ ConnectError
  \/ WebSocketError
  \/ StompErrorAfterConnect
  \/ LateConnect
  \/ \E r \in AllPendingReads, ok \in BOOLEAN : MarkReadSettle(r, ok)

SpecStatus == Init /\ [][NextStatus]_vars

\* Typing indicators: login, logout, the session, frames on every
\* subscription, the typing timeouts; time moves in seconds.
NextTyping ==
  \/ Login
  \/ Logout
  \/ ConnectSuccess
  \/ \E dest \in Destinations, m \in InboundTyping \cup InboundJoin : DeliverFrame(dest, m)
  \/ TypingExpire
  \/ Tick(1)

SpecTyping == Init /\ [][NextTyping]_vars

\* the CHAT frames of peer B for conversation c1
InboundPeerChat == { m \in InboundChat : m.sender = "B" /\ m.conversationId = "c1" }

\* The thread under local sends and inbound CHAT frames together: login,
\* selection, the session, the input field and the send button, peers' CHAT
\* frames on the user queue, REST calls settling; no time passes.
NextThread ==
  \/ Login
  \/ \E c \in Conversations : HandleConversationSelect(c, ParticipantOf(c))
  \/ Render
  \/ ConnectSuccess
  \/ HandleInputChange(<< " ", "y" >>)
  \/ HandleSendMessage
  \/ \E m \in InboundPeerChat : DeliverFrame(QueueMessages, m)
  \/ \E r \in AllPendingReads, ok \in BOOLEAN : MarkReadSettle(r, ok)
  \/ \E c \in Conversations, ok \in BOOLEAN, r \in AllHistories : LoadSettle(c, ok, r)

SpecThread == Init /\ [][NextThread]_vars

\* The thread under history loads that hold a peer's message: login,
\* selection, the session, peer B's CHAT frames for c1 on both message
\* subscriptions, REST calls settling, the history answered with or without
\* the message of a frame.
NextHistory ==
  \/ Login
  \/ \E c \in Conversations : HandleConversationSelect(c, ParticipantOf(c))
  \/ Render
  \/ ConnectSuccess
  \/ \E dest \in {QueueMessages, TopicMessages(Me)}, m \in InboundPeerChat : DeliverFrame(dest, m)
  \/ \E r \in AllPendingReads, ok \in BOOLEAN : MarkReadSettle(r, ok)
  \/ \E c \in Conversations, ok \in BOOLEAN, r \in AllHistories : LoadSettle(c, ok, r)
  \/ \E m \in InboundPeerChat : LoadSettleWith(m)

SpecHistory == Init /\ [][NextHistory]_vars

\* The transport session as a component: the App creates, connects and
\* disconnects sessions (login, logout, the re-run of the connect effect after
\* a selection, the outcomes of a connect attempt), and the four send methods
\* are called on the session at any moment.
NextService ==
  \/ Login
  \/ Logout
  \/ \E c \in Conversations : HandleConversationSelect(c, ParticipantOf(c))
  \/ Render
  \/ \E r \in AllPendingReads, ok \in BOOLEAN : MarkReadSettle(r, ok)
  \/ ConnectSuccess
  \/ ConnectError
  \/ WebSocketError
  \/ \E c \in Conversations : CallSendPrivateMessage(c)
  \/ \E c \in Conversations : CallSendTypingIndicator(c)
  \/ \E c \in Conversations : CallMarkAsRead(c)
  \/ CallSendJoinMessage

SpecService == Init /\ [][NextService]_vars

\* The chat area as a component: it is mounted by login and unmounted by
\* logout, and its parent calls the two methods of its handle.
NextChatArea ==
  \/ Login
  \/ Logout
  \/ \E message \in ParentMessages : CallAddMessage(message)
  \/ CallMarkAllSentAsRead

SpecChatArea == Init /\ [][NextChatArea]_vars

(***************************************************************************)
(* Properties of inbound message handling                                  *)
(***************************************************************************)
\* C1: an inbound CHAT event whose sender is the current user appends nothing
\* to the visible thread: the thread is the same before and after the delivery.
SelfEchoSuppressed ==
  [][ (step'.op = "frame" /\ step'.frame.type = "CHAT" /\ step'.frame.sender = currentUser)
        => messages' = messages ]_vars

\* an own echo for the open conversation reached the message handler while the
\* thread was not full
SelfEchoDelivered ==
  /\ step.op = "frame"
  /\ step.handler = "onMessageReceived"
  /\ step.frame.type = "CHAT"
  /\ step.frame.sender = currentUser
  /\ step.frame.conversationId = selectedConversationRef
  /\ DedupKey(step.frame) \notin recentKeys
  /\ Len(messages) < MaxThread

\* C2: the same CHAT event delivered again less than 10 seconds after it was
\* appended to the thread of the active conversation is not appended a second
\* time.
NoSecondAppendWithinWindow ==
  [][ (step'.op = "frame" /\ step'.frame = TrackedFrame /\ lastAppend < DEDUP_SECONDS)
        => messages' = messages ]_vars

\* C3: an inbound CHAT event of a peer whose conversationId is not the active
\* conversation leaves the visible thread unchanged, asks for one refresh of the
\* conversation list, and issues no mark-as-read REST call and no read receipt.
OtherConversationOnlyRefreshes ==
  [][ (/\ step'.op = "frame"
       /\ step'.handler = "onMessageReceived"
       /\ step'.frame.type = "CHAT"
       /\ step'.frame.sender # currentUser
       /\ step'.frame.conversationId # selectedConversationRef)
        => /\ messages' = messages
           /\ step'.refresh = 1
           /\ step'.rest = << >>
           /\ step'.pub = << >>
           /\ pendingReads' = pendingReads ]_vars

\* a peer's message for the conversation that is not open arrived while a
\* conversation with a non-empty, not yet full thread was open
OtherConversationDelivered ==
  /\ step.op = "frame"
  /\ step.handler = "onMessageReceived"
  /\ step.frame.type = "CHAT"
  /\ step.frame.sender # currentUser
  /\ step.frame.conversationId \in Conversations
  /\ selectedConversationRef \in Conversations
  /\ step.frame.conversationId # selectedConversationRef
  /\ Len(messages) = 1
  /\ pendingReads = {}

\* the thread after a read receipt, as the read-receipt semantics have it: the
\* user's own SENT messages become READ, nothing else changes
AfterReadReceipt(thread, user) ==
  [i \in 1..Len(thread) |->
     IF thread[i].senderUsername = user /\ thread[i].status = "SENT"
     THEN [thread[i] EXCEPT !.status = "READ"]
     ELSE thread[i]]

\* C4: an inbound READ event for the active conversation turns all and only
\* the thread's messages of the current user from SENT to READ; no message is
\* added, removed or reordered.
ReadReceiptMarksOwnMessages ==
  [][ (/\ step'.op = "frame"
       /\ step'.frame.type = "READ"
       /\ step'.frame.conversationId = selectedConversationRef)
        => messages' = AfterReadReceipt(messages, currentUser) ]_vars

\* C5: every READ frame the transport delivers is handed to the read-receipt
\* handler.
ReadFramesReachReadHandler ==
  (step.op = "frame" /\ step.frame.type = "READ") => step.handler = "onRead"

(***************************************************************************)
(* Properties of local sends                                               *)
(***************************************************************************)
\* the thread after a local send of the text typed: one more message at the
\* end, with that content, the current user as sender, and status SENT
AfterLocalSend ==
  Append(messages, [content |-> Str(newMessage), senderUsername |-> currentUser,
                    recipientUsername |-> renderedParticipant, createdAt |-> Now,
                    status |-> "SENT"])

\* the CHAT event of a local send of the text typed
LocalSendEvent ==
  [destination |-> AppSendPrivate,
   body |-> [type |-> "CHAT", sender |-> currentUser, recipient |-> renderedParticipant,
             conversationId |-> renderedConversation, timestamp |-> Now,
             content |-> Str(newMessage), status |-> "SENT"]]

\* C6, as stated: when the user submits non-blank text in the active
\* conversation, the thread gains exactly one message with that content, the
\* current user as sender and status SENT in the same step, and the CHAT event
\* is published, whatever the transport's state.
SendWhateverTransportState ==
  [][ (step'.op = "send" /\ Trim(newMessage) # << >>)
        => /\ messages' = AfterLocalSend
           /\ step'.pub = << LocalSendEvent >> ]_vars

\* C6, amended: when the user submits non-blank text in the active conversation
\* and the session is connected, the thread gains exactly one message with that
\* content (untrimmed), the current user as sender and status SENT in the same
\* step, and the CHAT event is published; when the session is not connected,
\* nothing is appended and nothing is published.  The input is cleared either way.
SendOnlyWhenConnected ==
  [][ (step'.op = "send" /\ Trim(newMessage) # << >>)
        => /\ newMessage' = << >>
           /\ IF connected
              THEN /\ messages' = AfterLocalSend
                   /\ step'.pub = << LocalSendEvent >>
              ELSE /\ messages' = messages
                   /\ step'.pub = << >> ]_vars

\* a text was sent over a connected session into a thread that had a message
LocalSendDone ==
  /\ step.op = "send"
  /\ step.handler = "submitted"
  /\ connected
  /\ Len(step.pub) = 1
  /\ Len(messages) = 2
  /\ messages[2].status = "SENT"
  /\ newMessage = << >>

(***************************************************************************)
(* Properties of accepted inbound messages                                 *)
(***************************************************************************)
\* C7: an inbound CHAT event of a peer for the active conversation whose key is
\* not in the de-dup cache is appended to the end of the thread as one message
\* with the event's content, sender and timestamp, and a mark-as-read REST call
\* for that conversation and the current user is issued.
AcceptedIsAppendedAndMarked ==
  [][ (/\ step'.op = "frame"
       /\ step'.handler = "onMessageReceived"
       /\ step'.frame.type = "CHAT"
       /\ step'.frame.sender # currentUser
       /\ step'.frame.conversationId = selectedConversationRef
       /\ DedupKey(step'.frame) \notin recentKeys)
        => /\ Len(messages') = Len(messages) + 1
           /\ SubSeq(messages', 1, Len(messages)) = messages
           /\ messages'[Len(messages')].content = step'.frame.content
           /\ messages'[Len(messages')].senderUsername = step'.frame.sender
           /\ messages'[Len(messages')].createdAt = step'.frame.timestamp
           /\ step'.rest = << [name |-> "markMessagesAsRead",
                               conversationId |-> step'.frame.conversationId,
                               username |-> currentUser] >> ]_vars

\* a peer's message was accepted into a thread that had a message
AcceptedDelivered ==
  /\ step.op = "frame"
  /\ step.handler = "onMessageReceived"
  /\ step.frame.type = "CHAT"
  /\ step.frame.sender # currentUser
  /\ step.frame.conversationId = selectedConversationRef
  /\ Len(step.rest) = 1
  /\ Len(messages) = 2
  /\ messages[1].content = "old"
  /\ messages[2].content = step.frame.content

\* the read receipt for a conversation
ReadReceiptEvent(conversationId, username) ==
  [destination |-> AppMarkAsRead,
   body |-> [type |-> "CHAT", sender |-> username, recipient |-> UNDEFINED,
             conversationId |-> conversationId, timestamp |-> Now,
             content |-> "", status |-> UNDEFINED]]

\* C8, as stated: when the mark-as-read REST call of an accepted inbound
\* message settles, with either outcome, the read receipt for that conversation
\* is published and the conversation list is refreshed.
ReceiptWhateverOutcome ==
  [][ \A r \in pendingReads :
        (step'.op = "markReadSettled" /\ r \notin pendingReads' /\ r.origin = "inbound")
          => /\ step'.pub = << ReadReceiptEvent(r.conversationId, r.username) >>
             /\ step'.refresh = 1 ]_vars

\* C8, amended: when the mark-as-read REST call of an accepted inbound message
\* succeeds, the conversation list is refreshed and, if the current session is
\* connected at that moment, the read receipt for that conversation is
\* published (nothing is published if it is not); when the call fails, nothing
\* is published and no refresh is asked for.
ReceiptOnlyOnSuccess ==
  [][ \A r \in pendingReads :
        (step'.op = "markReadSettled" /\ r \notin pendingReads' /\ r.origin = "inbound")
          => IF step'.handler = "inbound-ok"
             THEN /\ step'.refresh = 1
                  /\ step'.pub = IF connected
                                 THEN << ReadReceiptEvent(r.conversationId, r.username) >>
                                 ELSE << >>
             ELSE /\ step'.handler = "inbound-failed"
                  /\ step'.refresh = 0
                  /\ step'.pub = << >> ]_vars

\* the call of an accepted message succeeded while the session was connected
ReceiptPublished ==
  /\ step.op = "markReadSettled"
  /\ step.handler = "inbound-ok"
  /\ connected
  /\ Len(step.pub) = 1
  /\ step.refresh = 1
  /\ messages # << >>

\* C9: once the user has selected a conversation, every inbound CHAT or READ
\* event of a peer is classified against the selected conversation: a CHAT
\* event for another conversation only refreshes the conversation list, a CHAT
\* event for the selected one is taken into the thread's handling, a READ event
\* for the selected one marks the user's messages read and refreshes the list,
\* and a READ event for another conversation does nothing.
ClassifiedAgainstSelection ==
  [][ (/\ step'.op = "frame"
       /\ step'.frame.sender # currentUser
       /\ step'.frame.type \in {"CHAT", "READ"}
       /\ selectedConversation # NULL)
        => IF step'.frame.type = "CHAT"
           THEN IF step'.frame.conversationId = selectedConversation
                THEN step'.refresh = 0
                ELSE messages' = messages /\ step'.refresh = 1
           ELSE IF step'.frame.conversationId = selectedConversation
                THEN messages' = AfterReadReceipt(messages, currentUser) /\ step'.refresh = 1
                ELSE messages' = messages /\ step'.refresh = 0 ]_vars

(***************************************************************************)
(* Properties of the typing indicators                                     *)
(***************************************************************************)
\* C10: right after a TYPING event of peer P is processed P is in the typing
\* list, and once more than 3 seconds have passed since P's last TYPING event P
\* is not in the typing list.
TypingShownThenExpires ==
  /\ (step.op = "frame" /\ step.handler = "onTyping" /\ step.frame.type = "TYPING")
       => \E i \in 1..Len(typingUsers) : typingUsers[i] = step.frame.sender
  /\ \A p \in TypingPeers :
       lastTyping[p] > TYPING_SECONDS => \A i \in 1..Len(typingUsers) : typingUsers[i] # p

\* the typing timeout of a peer ran out 3 seconds after that peer's last TYPING
\* event and took the peer off the list, while another peer stays on it
TypingExpired ==
  /\ step.op = "typingExpire"
  /\ lastTyping["B"] = TYPING_SECONDS
  /\ lastTyping["C"] < TYPING_SECONDS
  /\ typingUsers = << "C" >>

\* C11: a TYPING event of a sender who is already on the typing list (a later
\* event of a burst) schedules no further removal: the pending typing timeouts
\* are the same before and after it.
OnlyFirstOfBurstSchedules ==
  [][ (/\ step'.op = "frame"
       /\ step'.handler = "onTyping"
       /\ step'.frame.type = "TYPING"
       /\ \E i \in 1..Len(typingUsers) : typingUsers[i] = step'.frame.sender)
        => typingTimers' = typingTimers ]_vars

(***************************************************************************)
(* Properties of the outbound typing notification                          *)
(***************************************************************************)
\* C12: of two input changes with no time passing between them, at most one
\* publishes a TYPING event to the same recipient.
OneTypingEventPerSecond ==
  [][ (/\ step.op = "input"
       /\ Len(step.pub) = 1
       /\ step'.op = "input"
       /\ Len(step'.pub) = 1)
        => step'.pub[1].body.recipient # step.pub[1].body.recipient ]_vars

\* C13: an input change publishes a TYPING event only if the new content is
\* not empty, a recipient is selected and the session is connected, and then it
\* publishes exactly one, to that recipient; a change that empties the field or
\* happens while not connected publishes nothing.
TypingOnlyWhenNonEmptyAndConnected ==
  [][ (step'.op = "input")
        => /\ step'.pub # << >>
                => /\ newMessage' # << >>
                   /\ renderedParticipant # NULL
                   /\ connected
                   /\ step'.pub = << [destination |-> AppTyping,
                                      body |-> [type |-> "TYPING", sender |-> currentUser,
                                                recipient |-> renderedParticipant,
                                                conversationId |-> UNDEFINED,
                                                timestamp |-> Now, content |-> "",
                                                status |-> UNDEFINED]] >>
           /\ (newMessage' = << >> \/ ~connected) => step'.pub = << >> ]_vars

\* the field was emptied over a connected session, after a change that had
\* published a TYPING event
EmptiedWhileConnected ==
  /\ step.op = "input"
  /\ newMessage = << >>
  /\ connected
  /\ renderedParticipant # NULL
  /\ typingTimeout >= 0

(***************************************************************************)
(* Properties of the transport session                                     *)
(***************************************************************************)
\* C14: a successful connect of user U subscribes to exactly the four
\* destinations /user/queue/messages, /topic/user/U/queue/messages,
\* /user/queue/typing and /user/queue/status, in this order, then publishes
\* exactly one JOIN event with sender U, and only then is the connect resolved
\* (the status is Connecting before the step and Connected after it).
ConnectSubscribesThenJoins ==
  [][ (step'.op = "onConnect")
        => /\ subscribed = {}
           /\ subscribed' = { "/user/queue/messages",
                              "/topic/user/" \o currentUser \o "/queue/messages",
                              "/user/queue/typing", "/user/queue/status" }
           /\ step'.pub = << [subscribe |-> "/user/queue/messages"],
                             [subscribe |-> "/topic/user/" \o currentUser \o "/queue/messages"],
                             [subscribe |-> "/user/queue/typing"],
                             [subscribe |-> "/user/queue/status"],
                             [destination |-> "/app/chat.addUser",
                              body |-> [type |-> "JOIN", sender |-> currentUser,
                                        recipient |-> UNDEFINED, conversationId |-> UNDEFINED,
                                        timestamp |-> Now, content |-> "",
                                        status |-> UNDEFINED]] >>
           /\ connectionStatus = "Connecting..."
           /\ connectionStatus' = "Connected" ]_vars

\* the session of a re-run of the connect effect has connected
ConnectedAfterRerun ==
  /\ step.op = "onConnect"
  /\ connected
  /\ renderedConversation # NULL
  /\ Cardinality(subscribed) = 4
  /\ Len(step.pub) = 5

\* C15: logout calls disconnect() and the effect's cleanup calls it again: the
\* session is left as one call leaves it - no client, isConnected() false, no
\* subscription - and the second call deactivates nothing: the number of
\* clients held drops by one if the session held a client and not at all if it
\* held none.
DisconnectTwiceAsOnce ==
  [][ (step'.op = "logout")
        => /\ ~stompClient'
           /\ ~connected'
           /\ ~connecting'
           /\ subscribed' = {}
           /\ liveClients' = liveClients - (IF stompClient THEN 1 ELSE 0)
           /\ liveClients' = 0 ]_vars

\* the user has logged out: logout and then the cleanup have called disconnect()
\* on the session
LoggedOutTwice ==
  /\ step.op = "logout"
  /\ currentUser = NULL
  /\ hasSession
  /\ ~stompClient
  /\ connectionStatus = "Disconnected"

\* C16: when a connect attempt fails with a STOMP error the status becomes
\* Connection Failed; on success it goes from Connecting to Connected; the
\* status is always one of Disconnected, Connecting, Connected and Failed.
StatusFollowsConnect ==
  [][ /\ step'.op = "onStompError" => connectionStatus' = "Connection Failed"
      /\ step'.op = "onConnect"
           => connectionStatus = "Connecting..." /\ connectionStatus' = "Connected"
      /\ connectionStatus' \in {"Disconnected", "Connecting...", "Connected",
                                "Connection Failed"} ]_vars

\* a connect attempt has failed with a STOMP error
ConnectFailed ==
  /\ step.op = "onStompError"
  /\ connectionStatus = "Connection Failed"
  /\ ~connected
  /\ ~connecting

\* C17: when the transport handshake of a connect attempt errors, the attempt
\* fails: the status becomes Connection Failed.
HandshakeErrorFailsConnect ==
  [][ (step'.op = "onWebSocketError") => connectionStatus' = "Connection Failed" ]_vars

\* C18: at most one session holds a client, and a session that is connected or
\* connecting is the one that holds it: when the connect effect creates a
\* session, the session before it has been disconnected.
OneLiveSession ==
  /\ liveClients <= 1
  /\ (connected \/ connecting) => (stompClient /\ liveClients = 1)

\* the connect effect has re-run for a selection and replaced the session
SessionReplaced ==
  /\ step.op = "render"
  /\ renderedConversation # NULL
  /\ connecting
  /\ liveClients = 1

(***************************************************************************)
(* Properties of the conversation list                                     *)
(***************************************************************************)
\* C19: a refresh whose fetch succeeds leaves the cached list equal to the
\* fetched previews, with nothing of the old list in it; a refresh whose fetch
\* fails leaves the cached list as it was.
RefreshReplacesOrKeeps ==
  [][ (step'.op = "refreshSettled")
        => IF step'.handler = "refresh-ok"
           THEN conversations' = step'.frame.answer
           ELSE conversations' = conversations ]_vars

\* a fetch has succeeded and the cached list is the one preview it brought
RefreshSucceeded ==
  /\ step.op = "refreshSettled"
  /\ step.handler = "refresh-ok"
  /\ Len(conversations) = 1
  /\ conversations = step.frame.answer

\* C20: selecting a conversation issues the mark-as-read call and no refresh
\* yet; when that call settles, with success or with failure, one refresh of
\* the conversation list is asked for, and the mounted sidebar fetches.
SelectRefreshesAfterSettle ==
  [][ /\ step'.op = "select" => (step'.refresh = 0 /\ Len(step'.rest) = 1)
      /\ \A r \in pendingReads :
           (step'.op = "markReadSettled" /\ r \notin pendingReads' /\ r.origin = "select")
             => /\ step'.refresh = 1
                /\ currentUser # NULL => refreshing' ]_vars

\* the mark-as-read call of a selection has failed and the refresh was asked for
SelectCallFailed ==
  /\ step.op = "markReadSettled"
  /\ step.handler = "select-failed"
  /\ step.refresh = 1
  /\ refreshing
  /\ selectedConversation # NULL
(***************************************************************************)
(* Properties of the thread                                                *)
(***************************************************************************)
\* C21: a call of addMessage or markAllSentAsRead keeps every message that is
\* in the thread at its place with its content, sender, recipient and creation
\* time; its status stays as it is or moves from SENT to READ, and never from
\* READ to anything else.
OnlyStatusMovesSentToRead ==
  [][ (step'.op \in {"addMessage", "markAllSentAsRead"})
        => /\ Len(messages') >= Len(messages)
           /\ \A i \in 1..Len(messages) :
                /\ messages'[i].content = messages[i].content
                /\ messages'[i].senderUsername = messages[i].senderUsername
                /\ messages'[i].recipientUsername = messages[i].recipientUsername
                /\ messages'[i].createdAt = messages[i].createdAt
                /\ \/ messages'[i].status = messages[i].status
                   \/ messages[i].status = "SENT" /\ messages'[i].status = "READ" ]_vars

\* markAllSentAsRead has been called on a thread of three messages, among them
\* one of the user that is READ now and one of a peer
MarkedReadInThread ==
  /\ step.op = "markAllSentAsRead"
  /\ Len(messages) = 3
  /\ \E i, j \in 1..3 :
       /\ messages[i].senderUsername = Me /\ messages[i].status = "READ"
       /\ messages[j].senderUsername # Me /\ messages[j].status = UNDEFINED
(***************************************************************************)
(* Properties of the de-dup cache                                          *)
(***************************************************************************)
\* the key of TrackedFrame in the de-dup cache
TrackedKey == DedupKey(TrackedFrame)

\* C22: a key in the de-dup cache is forgotten 10 seconds after the message
\* it stands for was appended, however often the message was delivered again
\* in between: while the key is in the cache, its one timeout has as many
\* seconds left as are missing to 10 since the append; and once 10 seconds
\* have passed and the timeout has run, the same CHAT event delivered for the
\* active conversation is appended to the thread again.
DedupForgetsAfterWindow ==
  [][ /\ TrackedKey \in recentKeys'
           => /\ [key |-> TrackedKey, left |-> DEDUP_SECONDS - lastAppend']
                    \in dedupTimers'
              /\ \A t \in dedupTimers' :
                   t.key = TrackedKey => t.left = DEDUP_SECONDS - lastAppend'
      /\ (/\ step'.op = "frame"
          /\ step'.handler = "onMessageReceived"
          /\ step'.frame = TrackedFrame
          /\ selectedConversationRef = TrackedFrame.conversationId
          /\ lastAppend >= DEDUP_SECONDS
          /\ \A t \in dedupTimers : t.key = TrackedKey => t.left > 0)
           => /\ messages' = Append(messages,
                                   [content |-> "hi", senderUsername |-> "B",
                                    recipientUsername |-> Me, createdAt |-> "t1",
                                    status |-> UNDEFINED])
              /\ lastAppend' = 0 ]_vars

\* the timeout of a key has run 10 seconds after its message was appended: the
\* message is in the thread, its key is not in the cache any more, and the same
\* event can be delivered again
KeyForgotten ==
  /\ step.op = "dedupExpire"
  /\ lastAppend = DEDUP_SECONDS
  /\ DedupKey(TrackedFrame) \notin recentKeys
  /\ Len(messages) = 1
  /\ messages[1].createdAt = TrackedFrame.timestamp
  /\ messages[1].senderUsername = TrackedFrame.sender
  /\ selectedConversationRef = TrackedFrame.conversationId
  /\ QueueMessages \in subscribed
  /\ pendingReads = {}
(***************************************************************************)
(* Properties of failures after an optimistic update                       *)
(***************************************************************************)
\* C23: when the mark-as-read REST call issued for an accepted inbound message
\* fails, the thread stays as it is (the message is not taken back), nothing is
\* published, no REST call is issued, no refresh of the conversation list is
\* asked for, and the session and its status are untouched.
FailedMarkReadChangesNothing ==
  [][ \A r \in pendingReads :
        (/\ step'.op = "markReadSettled"
         /\ r \notin pendingReads'
         /\ r.origin = "inbound"
         /\ step'.handler # "inbound-ok")
          => /\ messages' = messages
             /\ step'.pub = << >>
             /\ step'.rest = << >>
             /\ step'.refresh = 0
             /\ refreshing' = refreshing
             /\ connectionStatus' = connectionStatus
             /\ connected' = connected
             /\ stompClient' = stompClient ]_vars

\* the mark-as-read call of an accepted message has failed while the session
\* was connected, and the message is in the thread
InboundMarkReadFailed ==
  /\ step.op = "markReadSettled"
  /\ step.handler = "inbound-failed"
  /\ connected
  /\ connectionStatus = "Connected"
  /\ Len(messages) = 1
  /\ messages[1].senderUsername # Me
(***************************************************************************)
(* Properties of the order of the thread                                   *)
(***************************************************************************)
\* C24: a local send or an inbound frame leaves the thread as it is or adds
\* one message at its end - the optimistic message of the send, or the message
\* of the frame - so the messages that were in the thread keep their places and
\* accepted inbound messages stand in the order of their delivery.
AppendsKeepDeliveryOrder ==
  [][ (step'.op \in {"frame", "send"})
        => \/ messages' = messages
           \/ /\ Len(messages') = Len(messages) + 1
              /\ SubSeq(messages', 1, Len(messages)) = messages
              /\ IF step'.op = "frame"
                 THEN /\ messages'[Len(messages')].senderUsername = step'.frame.sender
                      /\ messages'[Len(messages')].createdAt = step'.frame.timestamp
                      /\ messages'[Len(messages')].content = step'.frame.content
                 ELSE /\ messages'[Len(messages')].senderUsername = currentUser
                      /\ messages'[Len(messages')].createdAt = Now
                      /\ messages'[Len(messages')].content = Str(newMessage) ]_vars

\* the peer's message with the later timestamp was delivered first and the one
\* with the earlier timestamp after it: the thread shows them as delivered
DeliveredOutOfTimestampOrder ==
  /\ step.op = "frame"
  /\ step.frame.timestamp = "t1"
  /\ Len(messages) = 2
  /\ messages[1].createdAt = "t2"
  /\ messages[2].createdAt = "t1"
(***************************************************************************)
(* Properties of what is published                                         *)
(***************************************************************************)
\* C25: every event published goes to the destination of its kind - the
\* message of a send to /app/chat.sendPrivateMessage, the typing notification
\* of an input change to /app/chat.typing, the read receipt to
\* /app/chat.markAsRead, the JOIN of a connect to /app/chat.addUser - its type
\* is one of CHAT, JOIN, LEAVE, TYPING, ONLINE, OFFLINE, and every published
\* body of type CHAT carries a sender, a recipient and a conversationId.
PublishedToItsDestination ==
  [][ \A i \in 1..Len(step'.pub) :
        "destination" \in DOMAIN step'.pub[i]
          => /\ step'.pub[i].destination =
                  (IF step'.op = "send" THEN "/app/chat.sendPrivateMessage"
                   ELSE IF step'.op = "input" THEN "/app/chat.typing"
                   ELSE IF step'.op = "markReadSettled" THEN "/app/chat.markAsRead"
                   ELSE "/app/chat.addUser")
             /\ step'.pub[i].body.type =
                  (IF step'.op = "send" THEN "CHAT"
                   ELSE IF step'.op = "input" THEN "TYPING"
                   ELSE IF step'.op = "markReadSettled" THEN step'.pub[i].body.type
                   ELSE "JOIN")
             /\ step'.pub[i].body.type
                  \in {"CHAT", "JOIN", "LEAVE", "TYPING", "ONLINE", "OFFLINE"}
             /\ step'.pub[i].body.type = "CHAT"
                  => /\ step'.pub[i].body.sender \notin {UNDEFINED, NULL, ""}
                     /\ step'.pub[i].body.recipient \notin {UNDEFINED, NULL, ""}
                     /\ step'.pub[i].body.conversationId \notin {UNDEFINED, NULL, ""} ]_vars
(***************************************************************************)
(* Properties of the date grouping                                         *)
(***************************************************************************)
\* the messages of the groups, one group after the other
RECURSIVE Concatenated(_)
Concatenated(groups) ==
  IF groups = << >> THEN << >>
  ELSE Head(groups).messages \o Concatenated(Tail(groups))

\* the calendar day of a message
CalendarDay(message) ==
  << ParseDate(message.createdAt).fullYear, ParseDate(message.createdAt).month,
     ParseDate(message.createdAt).date >>

\* C26: the date groups of the thread start at the first message and exactly
\* at each message whose calendar day differs from that of the message before
\* it; no group is empty, and the groups one after the other are the thread,
\* so every message is in exactly one group.
GroupsSplitAtDayChange ==
  LET groups == DateGroups(messages)
      starts == { i \in 1..Len(messages) :
                    i = 1 \/ CalendarDay(messages[i]) # CalendarDay(messages[i - 1]) }
  IN /\ Concatenated(groups) = messages
     /\ \A k \in 1..Len(groups) : Len(groups[k].messages) > 0
     /\ { Len(Concatenated(SubSeq(groups, 1, k - 1))) + 1 : k \in 1..Len(groups) } = starts
     /\ Len(groups) = Cardinality(starts)

\* a thread of three messages whose days are a day, the next day, and the
\* first day again: three groups, two of them of the same day
ThreeGroupsTwoDays ==
  /\ Len(messages) = 3
  /\ messages[1].createdAt = "t1"
  /\ messages[2].createdAt = Now
  /\ messages[3].createdAt = "t2"
  /\ Len(DateGroups(messages)) = 3
  /\ DateGroups(messages)[1].dateKey = "2024-11-1"
  /\ DateGroups(messages)[3].dateKey = "2024-11-1"
(***************************************************************************)
(* Properties of the send methods                                          *)
(***************************************************************************)
\* C27: sendPrivateMessage, sendTypingIndicator, markAsRead or sendJoinMessage
\* called on a session that has no client or is not connected publishes
\* nothing and leaves the session, the status and the thread as they are.
SendIsNoOpWhenNotConnected ==
  [][ (/\ step'.op \in {"sendPrivateMessage", "sendTypingIndicator", "markAsRead",
                        "sendJoinMessage"}
       /\ ~(stompClient /\ connected))
        => /\ step'.pub = << >>
           /\ stompClient' = stompClient
           /\ connected' = connected
           /\ connecting' = connecting
           /\ subscribed' = subscribed
           /\ liveClients' = liveClients
           /\ connectionStatus' = connectionStatus
           /\ messages' = messages ]_vars

\* sendPrivateMessage was called on the session after logout had disconnected
\* it, and published nothing
SentAfterDisconnect ==
  /\ step.op = "sendPrivateMessage"
  /\ step.pub = << >>
  /\ hasSession
  /\ ~stompClient
  /\ ~connected
  /\ connectionStatus = "Disconnected"
(***************************************************************************)
(* Properties relating the thread and what is published                    *)
(***************************************************************************)
\* C28: a local send appends the optimistic message to the thread if and only
\* if it publishes a CHAT event, and then the event has the content and the
\* recipient of the appended message; when the session is not connected, the
\* send appends nothing, publishes nothing and asks for no refresh.
SendAppendsIffPublishes ==
  [][ (step'.op = "send")
        => /\ (messages' # messages) <=> (step'.pub # << >>)
           /\ step'.pub # << >>
                => /\ Len(step'.pub) = 1
                   /\ messages' = Append(messages,
                                         [content |-> step'.pub[1].body.content,
                                          senderUsername |-> step'.pub[1].body.sender,
                                          recipientUsername |-> step'.pub[1].body.recipient,
                                          createdAt |-> Now, status |-> "SENT"])
                   /\ step'.pub[1].body.type = "CHAT"
           /\ ~connected
                => /\ messages' = messages
                   /\ step'.pub = << >>
                   /\ step'.refresh = 0 ]_vars

\* a non-blank text was submitted after the connect attempt had failed: the
\* thread is the loaded history and nothing was published
SubmittedWhileNotConnected ==
  /\ step.op = "send"
  /\ step.handler = "submitted"
  /\ connectionStatus = "Connection Failed"
  /\ ~connected
  /\ step.pub = << >>
  /\ step.refresh = 0
  /\ Len(messages) = 1
  /\ messages[1].content = "old"
  /\ newMessage = << >>
(***************************************************************************)
(* Properties of the read receipt under a change of selection              *)
(***************************************************************************)
\* C29: the mark-as-read REST call issued when an inbound message is accepted
\* names the conversation of that message, which is the active one at that
\* moment, and the read receipt published when the call succeeds names the
\* conversation of the call, whatever conversation is selected by then.
ReceiptNamesConversationOfDelivery ==
  [][ /\ (step'.op = "frame" /\ step'.rest # << >>)
           => /\ Len(step'.rest) = 1
              /\ step'.rest[1].conversationId = step'.frame.conversationId
              /\ step'.rest[1].conversationId = selectedConversationRef
              /\ pendingReads' \ pendingReads
                   = { [origin |-> "inbound", conversationId |-> step'.frame.conversationId,
                        username |-> currentUser] }
      /\ \A r \in pendingReads :
           (step'.op = "markReadSettled" /\ r \notin pendingReads' /\ r.origin = "inbound")
             => \A i \in 1..Len(step'.pub) :
                   step'.pub[i].body.conversationId = r.conversationId ]_vars

\* the read receipt for c1 was published after the user had selected c2
ReceiptAfterSelectingAnother ==
  /\ step.op = "markReadSettled"
  /\ step.handler = "inbound-ok"
  /\ Len(step.pub) = 1
  /\ step.pub[1].body.conversationId = "c1"
  /\ selectedConversation = "c2"
  /\ selectedConversationRef = "c2"
(***************************************************************************)
(* Properties of the thread under selections and history loads             *)
(***************************************************************************)
\* C30: whenever a conversation is open and no history load is pending, every
\* message of the visible thread belongs to the open conversation: the other
\* participant of that conversation is its sender or its recipient.
ThreadShowsOpenConversation ==
  (/\ pendingLoads = {}
   /\ selectedConversation # NULL
   /\ renderedConversation = selectedConversation
   /\ selectedConversationRef = selectedConversation)
    => \A i \in 1..Len(messages) :
         ParticipantOf(selectedConversation)
           \in {messages[i].senderUsername, messages[i].recipientUsername}
(***************************************************************************)
(* Properties of appended messages under history loads                     *)
(***************************************************************************)
\* C31: when a message has just been appended to the thread (a send that was
\* published, or an inbound message that was accepted) and a history load that
\* was pending at that moment completes next, the appended message is still in
\* the thread.
AppendedSurvivesLoad ==
  [][ (/\ \/ step.op = "send" /\ step.pub # << >>
          \/ step.op = "frame" /\ step.handler = "onMessageReceived" /\ step.rest # << >>
       /\ messages # << >>
       /\ step'.op = "loadOk")
        => \E j \in 1..Len(messages') : messages'[j] = messages[Len(messages)] ]_vars

\* C32: an inbound CHAT event of a peer whose message is already in the
\* thread - same content, sender and creation time, as in the history loaded
\* for the conversation - leaves the thread as it is: no peer message stands
\* twice in the thread.
LoadedMessageNotAppendedAgain ==
  [][ (/\ step'.op = "frame"
       /\ step'.frame.type = "CHAT"
       /\ step'.frame.sender # currentUser
       /\ \E i \in 1..Len(messages) :
            /\ messages[i].content = step'.frame.content
            /\ messages[i].senderUsername = step'.frame.sender
            /\ messages[i].createdAt = step'.frame.timestamp
            /\ messages[i].status = "SENT")
        => messages' = messages ]_vars
(***************************************************************************)
(* Properties of the session under selections                              *)
(***************************************************************************)
\* C33: a selection and the render that follows it leave the session as it
\* is: a session that was connected stays connected with its subscriptions,
\* no client is deactivated or created, the status stays, and the de-dup
\* cache keeps its keys.
SelectionKeepsSession ==
  [][ (step'.op \in {"select", "render"} /\ connected)
        => /\ connected'
           /\ stompClient'
           /\ subscribed' = subscribed
           /\ connectionStatus' = connectionStatus
           /\ recentKeys' = recentKeys ]_vars
(***************************************************************************)
(* Properties of refreshes in flight together                              *)
(***************************************************************************)
\* C34: once the answer of the most recently issued refresh is shown, an
\* answer that arrives for an older refresh leaves the cached list as it is.
LateAnswerDoesNotOverwrite ==
  [][ (step'.op = "refreshSettled" /\ newestRefresh = "shown")
        => conversations' = conversations ]_vars

(***************************************************************************)
(* Properties of the status and of a disconnected session                  *)
(***************************************************************************)
\* C35: whenever the connection status is Connected, the current session's
\* isConnected() is true.
StatusAgreesWithSession ==
  connectionStatus = "Connected" => (hasSession /\ IsConnected)

\* C36: isConnected() is true only while the session holds a client, and a
\* connect callback that arrives after disconnect() neither makes
\* isConnected() true nor sets the status to Connected.
DisconnectedStaysDisconnected ==
  [][ /\ connected' => stompClient'
      /\ step'.op = "lateOnConnect"
           => (~connected' /\ connectionStatus' # "Connected") ]_vars

(***************************************************************************)
(* Properties of the typing list                                           *)
(***************************************************************************)
\* C37: a typing timeout takes a peer off the typing list only when at least
\* 3 seconds have passed since the TYPING event that put the peer on the list.
TypingStaysThreeSeconds ==
  [][ (step'.op = "typingExpire")
        => \A p \in TypingPeers :
             (Includes(typingUsers, p) /\ ~Includes(typingUsers', p))
               => lastAdded[p] >= TYPING_SECONDS ]_vars

\* C38: the typing list never holds the same peer twice, and a frame on the
\* typing queue whose type is not TYPING leaves the typing list and the pending
\* typing timeouts as they are.
TypingSetAndOtherTypes ==
  [][ /\ \A i, j \in 1..Len(typingUsers') : typingUsers'[i] = typingUsers'[j] => i = j
      /\ (step'.op = "frame" /\ step'.handler = "onTyping" /\ step'.frame.type # "TYPING")
           => (typingUsers' = typingUsers /\ typingTimers' = typingTimers) ]_vars

\* a JOIN frame came on the typing queue after two TYPING events of the same
\* peer: the peer is on the list once and both timeouts are pending
JoinOnTypingQueueAfterBurst ==
  /\ step.op = "frame"
  /\ step.handler = "onTyping"
  /\ step.frame.type = "JOIN"
  /\ typingUsers = << "B" >>
  /\ Len(typingTimers) = 2
  /\ \A i \in 1..Len(typingTimers) : typingTimers[i].user = "B"

====
